---- MODULE Spec2Model ----
(***************************************************************************)
(* The run-selection and data-synchronisation state machine of the         *)
(* dashboard's App component (src/unnamed/part_000): the React state       *)
(* (liveData, runs, activePlots, runDataCache, showAllRuns), the two       *)
(* setInterval timers, the fetches in flight and the four useEffect hooks. *)
(*                                                                         *)
(* One action is one event-loop task together with the render it causes    *)
(* and the effects of that render: React flushes the effects of a commit   *)
(* before it handles the next event or state update, and every effect      *)
(* reads the state of the render that scheduled it.                        *)
(***************************************************************************)
EXTENDS Integers, Sequences, FiniteSets, TLC

\* ------------------------------------------------------------------ bounds

\* Fetches for one run that may be in flight at once.
MaxInFlight == 2
\* /results fetches, and /runs fetches, that may be in flight at once.
MaxPollInFlight == 1
\* Longest steps/returns array of a response in the wide response set.
MaxSeriesLen == 2
\* The run identifiers the backend knows.
RunIds == {"r1", "r2"}
\* Runs listed in the colour model.
MaxColorRuns == 7
\* Largest elapsed_min of a RunSummary in the table model.
MaxElapsed == 130

\* ------------------------------------------------------------- wire values

\* The text values of a steps/returns array, each a sequence of characters:
\* two that are a number, one that is none, one that starts with one.
Texts == {<<"7">>, <<"1", "2">>, <<"x">>, <<"4", "x">>}

RECURSIVE SeqsUpTo(_, _)
SeqsUpTo(S, n) ==
    IF n = 0 THEN {<<>>}
    ELSE LET shorter == SeqsUpTo(S, n - 1)
         IN  shorter \cup {Append(s, x) : s \in {t \in shorter : Len(t) = n - 1}, x \in S}

\* An optional array field of a JSON body: absent, or an array of text values.
Absent == [has |-> FALSE, arr |-> <<>>]
Present(a) == [has |-> TRUE, arr |-> a]

\* The JSON bodies { steps?, returns? } of /results and /results/{runId} that
\* the synchronisation model draws from: one without a series and one with a
\* one-point series.
NarrowJson ==
    { [steps |-> Absent, returns |-> Absent],
      [steps |-> Present(<<<<"7">>>>), returns |-> Present(<<<<"7">>>>)] }

\* The bodies the parsing model draws from: the one without a series, and
\* every series of up to MaxSeriesLen points whose steps are any texts and
\* whose returns are numbers.
WideJson ==
    {[steps |-> Absent, returns |-> Absent]} \cup
    {[steps |-> Present(a), returns |-> Present([i \in DOMAIN a |-> <<"7">>])] :
        a \in SeqsUpTo(Texts, MaxSeriesLen)}

\* The JSON bodies of /runs: lists of RunSummary with unique identifiers.
RunLists ==
    LET n == Cardinality(RunIds)
        idSeqs == UNION {[1..k -> RunIds] : k \in 0..n}
        distinct == {s \in idSeqs : \A i, j \in DOMAIN s : i # j => s[i] # s[j]}
    IN  {[i \in DOMAIN s |-> [run |-> s[i]]] : s \in distinct}

\* The colour model's /runs body: MaxColorRuns runs, in the order of their names.
IdNames == <<"r1", "r2", "r3", "r4", "r5", "r6", "r7", "r8", "r9">>
ColorIds == {IdNames[i] : i \in 1..MaxColorRuns}
ColorRuns == [i \in 1..MaxColorRuns |-> [run |-> IdNames[i]]]

\* The optional elapsed_min of a RunSummary: absent, or a number of minutes.
NoElapsed == [has |-> FALSE, val |-> 0]
Elapsed(m) == [has |-> TRUE, val |-> m]

\* The /runs bodies the table model draws from: one run, with every
\* elapsed_min from 0 to MaxElapsed and without one.
ElapsedRunLists ==
    {<<[run |-> "r1", elapsed_min |-> e]>> :
        e \in {NoElapsed} \cup {Elapsed(m) : m \in 0..MaxElapsed}}

\* -------------------------------------------------------------- parseFloat

Digits == <<"0", "1", "2", "3", "4", "5", "6", "7", "8", "9">>
IsDigit(c) == \E i \in DOMAIN Digits : Digits[i] = c
DigitVal(c) == (CHOOSE i \in DOMAIN Digits : Digits[i] = c) - 1

NaN == [nan |-> TRUE, val |-> 0]
Num(v) == [nan |-> FALSE, val |-> v]

\* Number of leading white-space characters of s from position i.
RECURSIVE SkipSpace(_, _)
SkipSpace(s, i) ==
    IF i <= Len(s) /\ s[i] = " " THEN SkipSpace(s, i + 1) ELSE i

\* Value of the longest run of digits of s from position i, after acc.
RECURSIVE DigitRun(_, _, _)
DigitRun(s, i, acc) ==
    IF i <= Len(s) /\ IsDigit(s[i])
    THEN DigitRun(s, i + 1, acc * 10 + DigitVal(s[i]))
    ELSE acc

\* parseFloat on text without a fraction or an exponent: leading white space
\* is skipped, an optional sign is read, then the longest prefix of digits;
\* text with no such prefix gives NaN, and what follows the prefix is ignored.
parseFloat(s) ==
    LET i == SkipSpace(s, 1)
        signed == i <= Len(s) /\ s[i] \in {"-", "+"}
        j == IF signed THEN i + 1 ELSE i
    IN  IF j <= Len(s) /\ IsDigit(s[j])
        THEN Num((IF signed /\ s[i] = "-" THEN -1 ELSE 1) * DigitRun(s, j, 0))
        ELSE NaN

\* json.steps?.map(s => parseFloat(s)) || []
ParseField(f) ==
    IF f.has THEN [i \in DOMAIN f.arr |-> parseFloat(f.arr[i])] ELSE <<>>

\* { ...json, steps: ..., returns: ... }
ParseBody(json) ==
    [steps |-> ParseField(json.steps), returns |-> ParseField(json.returns)]

\* ------------------------------------------------------------------- state

VARIABLES
    phase,             \* "new" before the mount effects, "mounted", "unmounted"
    liveData,          \* useState liveData
    runs,              \* useState runs
    activePlots,       \* useState activePlots
    runDataCache,      \* useState runDataCache: a function on the cached ids
    showAllRuns,       \* useState showAllRuns
    liveInterval,      \* the mount effect's setInterval is live
    refreshIntervals,  \* the live refresh intervals, each with the activePlots it closed over
    pendingLive,       \* fetchLiveResults calls awaiting their response
    pendingRuns,       \* fetchRuns calls awaiting their response
    pendingRun,        \* fetchRunData(runId) calls awaiting their response, per runId
    defaultSelections, \* history: times the default-selection effect called setActivePlots
    onDemand,          \* history: fetches the fetch-newly-selected effect issued, per runId
    everListed,        \* history: the run identifiers of every list setRuns has stored
    everSelected       \* history: the run identifiers of every selection setActivePlots has stored
                       \* (a specification records the two counters, the two sets, or nothing)

vars == <<phase, liveData, runs, activePlots, runDataCache, showAllRuns,
          liveInterval, refreshIntervals, pendingLive, pendingRuns, pendingRun,
          defaultSelections, onDemand, everListed, everSelected>>

\* useState({}): no key.
EmptyCache == [r \in {} |-> r]

\* The history counters tell none, one and more than one apart: they count to
\* two and stay there.
Saturate(n) == IF n < 2 THEN n ELSE 2

Occurrences(list, x) == Cardinality({i \in DOMAIN list : list[i] = x})

Init ==
    /\ phase = "new"
    /\ liveData = [steps |-> <<>>, returns |-> <<>>]
    /\ runs = <<>>
    /\ activePlots = <<>>
    /\ runDataCache = EmptyCache
    /\ showAllRuns = FALSE
    /\ liveInterval = FALSE
    /\ refreshIntervals = <<>>
    /\ pendingLive = 0
    /\ pendingRuns = 0
    /\ pendingRun = [r \in RunIds |-> 0]
    /\ defaultSelections = 0
    /\ onDemand = [r \in RunIds |-> 0]
    /\ everListed = {}
    /\ everSelected = {}

\* ----------------------------------------------------------------- effects

Range(list) == {list[i] : i \in DOMAIN list}

Min(a, b) == IF a <= b THEN a ELSE b

\* Default-selection effect, deps [runs.length]: it runs when the rendered
\* runs.length differs from the previous render's, and calls setActivePlots
\* when runs is non-empty and activePlots is empty.
DefaultSelectionFires(oldRuns, newRuns, active) ==
    /\ Len(newRuns) # Len(oldRuns)
    /\ Len(newRuns) > 0
    /\ Len(active) = 0

\* A default selection that takes the list's last entry.
DefaultSelectionLast(newRuns) == <<newRuns[Len(newRuns)].run>>

\* [runs[0].run]
DefaultSelection(newRuns) == <<newRuns[1].run>>

\* Fetch-newly-selected effect, deps [activePlots]: the number of
\* fetchRunData(r) calls it makes for the rendered activePlots and cache.
FetchNewlySelected(active, cache, r) ==
    Cardinality({i \in DOMAIN active : active[i] = r /\ r \notin DOMAIN cache})

\* A cleanup that forgets clearInterval: the interval stays live.
RefreshCleanupKeeps(timers, active) == timers

\* The cleanup of the refresh effect: clearInterval of the interval that
\* effect run created, which is the last one created, if it created one.
RefreshCleanup(timers, active) ==
    IF Len(active) > 0 THEN SubSeq(timers, 1, Len(timers) - 1) ELSE timers

\* A refresh effect that returns no cleanup: the old interval stays live.
RefreshEffectNoCleanup(timers, prevActive, active) ==
    IF Len(active) > 0 THEN Append(timers, active) ELSE timers

\* Refresh effect, deps [activePlots]: the previous run's cleanup, then a new
\* interval closing over the rendered activePlots when it is non-empty.
RefreshEffect(timers, prevActive, active) ==
    LET cleaned == RefreshCleanup(timers, prevActive)
    IN  IF Len(active) > 0 THEN Append(cleaned, active) ELSE cleaned

\* A tick that refreshes every listed run, selected or not.
TickFetchesAllListed(captured, r) ==
    IF \E i \in DOMAIN runs : runs[i].run = r THEN 1 ELSE 0

\* A tick that refreshes only the runs that already have a cache entry.
TickFetchesCachedOnly(captured, r) ==
    IF r \in DOMAIN runDataCache THEN Occurrences(captured, r) ELSE 0

\* The number of fetchRunData(r) calls of one tick of a refresh interval that
\* closed over captured.
TickFetches(captured, r) == Occurrences(captured, r)

\* A mount effect that returns no cleanup.
MountNoCleanup(live) == live

\* The mount effect's cleanup: clearInterval(interval).
MountCleanup(live) == FALSE

\* An updater with its two branches exchanged.
ToggleBranchesSwapped(prev, id) ==
    LET Keep(x) == x # id
    IN  IF id \in Range(prev) THEN Append(prev, id) ELSE SelectSeq(prev, Keep)

\* An updater that never removes.
ToggleAlwaysAdds(prev, id) == Append(prev, id)

\* The checkbox's updater: prev => prev.includes(id) ? prev.filter(...) : [...prev, id]
ToggleUpdater(prev, id) ==
    LET Keep(x) == x # id
    IN  IF id \in Range(prev) THEN SelectSeq(prev, Keep) ELSE Append(prev, id)

\* A table that ignores showAllRuns and renders every run.
TableRowsAll(rs, showAll) == rs

\* showAllRuns ? runs : runs.slice(0, 1)
TableRows(rs, showAll) ==
    IF showAll THEN rs ELSE SubSeq(rs, 1, Min(1, Len(rs)))

\* An updater that omits ...prev: the new cache holds the written key only.
CacheUpdaterNoSpread(prev, runId, json) ==
    [r \in {runId} |-> ParseBody(json)]

\* An updater that writes a key once: a later response for it is dropped.
CacheUpdaterKeepsOld(prev, runId, json) ==
    [r \in DOMAIN prev \cup {runId} |->
        IF r \in DOMAIN prev THEN prev[r] ELSE ParseBody(json)]

\* setRunDataCache(prev => ({ ...prev, [runId]: { ...json, steps, returns } }))
CacheUpdater(prev, runId, json) ==
    [r \in DOMAIN prev \cup {runId} |-> IF r = runId THEN ParseBody(json) ELSE prev[r]]

\* A catch that stores an empty series for the run.
RunDataCatchEmpties(prev, runId) ==
    [r \in DOMAIN prev \cup {runId} |->
        IF r = runId THEN [steps |-> <<>>, returns |-> <<>>] ELSE prev[r]]

\* catch (e) { console.error(...) } of fetchRunData: the cache it leaves.
RunDataCatch(prev, runId) == prev

\* catch (e) { console.error(...) } of fetchLiveResults and of fetchRuns.
LiveCatch(prev) == prev
RunsCatch(prev) == prev

\* -------------------------------------------------------------------- view

\* const colors = [...]
Palette == <<"#8b76e9", "#76a5e9", "#e97676", "#76e9b3", "#e9d176", "#e976d1">>

\* A map callback that cycles over one colour too few.
PlotItemShortCycle(rs, cache, runId, idx) ==
    IF \A i \in DOMAIN rs : rs[i].run # runId THEN <<>>
    ELSE IF runId \notin DOMAIN cache \/ Len(cache[runId].steps) = 0 THEN <<>>
    ELSE << [x |-> cache[runId].steps, y |-> cache[runId].returns,
             name |-> runId, color |-> Palette[(idx % (Len(Palette) - 1)) + 1]] >>

\* A map callback that skips the check of the series' length.
PlotItemKeepsEmpty(rs, cache, runId, idx) ==
    IF \A i \in DOMAIN rs : rs[i].run # runId THEN <<>>
    ELSE IF runId \notin DOMAIN cache THEN <<>>
    ELSE << [x |-> cache[runId].steps, y |-> cache[runId].returns,
             name |-> runId, color |-> Palette[(idx % Len(Palette)) + 1]] >>

\* The callback of activePlots.map((runId, idx) => ...): no element for null,
\* one element for a series.
PlotItem(rs, cache, runId, idx) ==
    IF \A i \in DOMAIN rs : rs[i].run # runId THEN <<>>
    ELSE IF runId \notin DOMAIN cache \/ Len(cache[runId].steps) = 0 THEN <<>>
    ELSE LET run == rs[CHOOSE i \in DOMAIN rs :
                        /\ rs[i].run = runId
                        /\ \A j \in DOMAIN rs : rs[j].run = runId => i <= j]
         IN  << [x |-> cache[runId].steps, y |-> cache[runId].returns,
                 name |-> run.run, color |-> Palette[(idx % Len(Palette)) + 1]] >>

\* activePlots.map(...).filter(Boolean), from position i (1-based) on.
RECURSIVE PlotFrom(_, _, _, _)
PlotFrom(rs, active, cache, i) ==
    IF i > Len(active) THEN <<>>
    ELSE PlotItem(rs, cache, active[i], i - 1) \o PlotFrom(rs, active, cache, i + 1)

\* The data prop of Plot.
PlotData(rs, active, cache) == PlotFrom(rs, active, cache, 1)

\* The condition run.elapsed_min ? ... : ... on an optional number: undefined
\* and 0 are falsy.
Truthy(e) == e.has /\ e.val # 0

\* num.toString() of a natural number, as a sequence of characters.
RECURSIVE toString(_)
toString(n) ==
    IF n < 10 THEN <<Digits[n + 1]>>
    ELSE toString(n \div 10) \o <<Digits[(n % 10) + 1]>>

\* text.padStart(2, '0')
PadStart2(text) == IF Len(text) < 2 THEN <<"0">> \o text ELSE text

\* const pad = num => num.toString().padStart(2, '0')
pad(num) == PadStart2(toString(num))

\* The elapsed cell of a table row, as a sequence of characters.
ElapsedCell(run) ==
    IF Truthy(run.elapsed_min)
    THEN LET totalMinutes == run.elapsed_min.val
             hours == totalMinutes \div 60
             minutes == totalMinutes % 60
         IN  pad(hours) \o <<":">> \o pad(minutes)
    ELSE <<"-">>

\* ----------------------------------------------------------------- actions

\* The render after setActivePlots(next) and the two effects on [activePlots].
\* rec: the histories the specification records, "counts", "sets" or "none".
SetActivePlots(next, rec) ==
    /\ activePlots' = next
    /\ pendingRun' = [r \in RunIds |->
            pendingRun[r] + FetchNewlySelected(next, runDataCache, r)]
    /\ \A r \in RunIds : pendingRun'[r] <= MaxInFlight
    /\ everSelected' = IF rec = "sets" THEN everSelected \cup Range(next)
                       ELSE everSelected
    /\ onDemand' = IF rec = "counts"
                   THEN [r \in RunIds |->
                            Saturate(onDemand[r] + FetchNewlySelected(next, runDataCache, r))]
                   ELSE onDemand
    /\ refreshIntervals' = RefreshEffect(refreshIntervals, activePlots, next)

\* First render and the four effects on mount: fetchLiveResults(), fetchRuns()
\* and setInterval; the other three effects find runs and activePlots empty.
Mount ==
    /\ phase = "new"
    /\ phase' = "mounted"
    /\ pendingLive' = pendingLive + 1
    /\ pendingRuns' = pendingRuns + 1
    /\ liveInterval' = TRUE
    /\ pendingRun' = [r \in RunIds |->
            pendingRun[r] + FetchNewlySelected(activePlots, runDataCache, r)]
    /\ refreshIntervals' = RefreshEffect(refreshIntervals, <<>>, activePlots)
    /\ UNCHANGED <<liveData, runs, activePlots, runDataCache, showAllRuns,
                   defaultSelections, onDemand>>
    /\ UNCHANGED <<everListed, everSelected>>

\* A tick that polls /results alone.
LiveTickResultsOnly ==
    /\ liveInterval
    /\ pendingLive < MaxPollInFlight
    /\ pendingLive' = pendingLive + 1
    /\ UNCHANGED <<phase, liveData, runs, activePlots, runDataCache, showAllRuns,
                   liveInterval, refreshIntervals, pendingRuns, pendingRun,
                   defaultSelections, onDemand, everListed, everSelected>>

\* A tick of the mount effect's interval.
LiveTick ==
    /\ liveInterval
    /\ pendingLive < MaxPollInFlight
    /\ pendingRuns < MaxPollInFlight
    /\ pendingLive' = pendingLive + 1
    /\ pendingRuns' = pendingRuns + 1
    /\ UNCHANGED <<phase, liveData, runs, activePlots, runDataCache, showAllRuns,
                   liveInterval, refreshIntervals, pendingRun, defaultSelections,
                   onDemand>>
    /\ UNCHANGED <<everListed, everSelected>>

\* fetchLiveResults resumes with a body: setLiveData (dropped once unmounted).
FetchLiveResultsOk(json) ==
    /\ pendingLive > 0
    /\ pendingLive' = pendingLive - 1
    /\ liveData' = IF phase = "mounted" THEN ParseBody(json) ELSE liveData
    /\ UNCHANGED <<phase, runs, activePlots, runDataCache, showAllRuns,
                   liveInterval, refreshIntervals, pendingRuns, pendingRun,
                   defaultSelections, onDemand>>
    /\ UNCHANGED <<everListed, everSelected>>

\* fetchLiveResults resumes in its catch.
FetchLiveResultsFail ==
    /\ pendingLive > 0
    /\ pendingLive' = pendingLive - 1
    /\ liveData' = LiveCatch(liveData)
    /\ UNCHANGED <<phase, runs, activePlots, runDataCache, showAllRuns,
                   liveInterval, refreshIntervals, pendingRuns, pendingRun,
                   defaultSelections, onDemand>>
    /\ UNCHANGED <<everListed, everSelected>>

\* fetchRuns resumes with a list: setRuns, then the default-selection effect
\* and, when it selects, the effects on [activePlots].
FetchRunsOk(list, rec) ==
    /\ pendingRuns > 0
    /\ pendingRuns' = pendingRuns - 1
    /\ IF phase = "mounted"
       THEN /\ runs' = list
            /\ everListed' = IF rec = "sets"
                             THEN everListed \cup {list[i].run : i \in DOMAIN list}
                             ELSE everListed
            /\ IF DefaultSelectionFires(runs, list, activePlots)
               THEN /\ SetActivePlots(DefaultSelection(list), rec)
                    /\ defaultSelections' = IF rec = "counts"
                                            THEN Saturate(defaultSelections + 1)
                                            ELSE defaultSelections
               ELSE UNCHANGED <<activePlots, pendingRun, onDemand,
                                refreshIntervals, defaultSelections, everSelected>>
       ELSE UNCHANGED <<runs, activePlots, pendingRun, onDemand,
                        refreshIntervals, defaultSelections, everListed,
                        everSelected>>
    /\ UNCHANGED <<phase, liveData, runDataCache, showAllRuns, liveInterval,
                   pendingLive>>

\* fetchRuns resumes in its catch.
FetchRunsFail ==
    /\ pendingRuns > 0
    /\ pendingRuns' = pendingRuns - 1
    /\ runs' = RunsCatch(runs)
    /\ UNCHANGED <<phase, liveData, activePlots, runDataCache, showAllRuns,
                   liveInterval, refreshIntervals, pendingLive, pendingRun,
                   defaultSelections, onDemand>>
    /\ UNCHANGED <<everListed, everSelected>>

\* fetchRunData(runId) resumes with a body: setRunDataCache (dropped once
\* unmounted).  No effect depends on the cache.
FetchRunDataOk(runId, json) ==
    /\ pendingRun[runId] > 0
    /\ pendingRun' = [pendingRun EXCEPT ![runId] = @ - 1]
    /\ runDataCache' = IF phase = "mounted"
                       THEN CacheUpdater(runDataCache, runId, json)
                       ELSE runDataCache
    /\ UNCHANGED <<phase, liveData, runs, activePlots, showAllRuns, liveInterval,
                   refreshIntervals, pendingLive, pendingRuns, defaultSelections,
                   onDemand>>
    /\ UNCHANGED <<everListed, everSelected>>

\* fetchRunData(runId) resumes in its catch.
FetchRunDataFail(runId) ==
    /\ pendingRun[runId] > 0
    /\ pendingRun' = [pendingRun EXCEPT ![runId] = @ - 1]
    /\ runDataCache' = RunDataCatch(runDataCache, runId)
    /\ UNCHANGED <<phase, liveData, runs, activePlots, showAllRuns, liveInterval,
                   refreshIntervals, pendingLive, pendingRuns, defaultSelections,
                   onDemand>>
    /\ UNCHANGED <<everListed, everSelected>>

\* The user changes the Plot checkbox of a table row.
CheckboxToggle(runId, rec) ==
    /\ phase = "mounted"
    /\ \E i \in DOMAIN TableRows(runs, showAllRuns) :
            TableRows(runs, showAllRuns)[i].run = runId
    /\ SetActivePlots(ToggleUpdater(activePlots, runId), rec)
    /\ UNCHANGED <<phase, liveData, runs, runDataCache, showAllRuns, liveInterval,
                   pendingLive, pendingRuns, defaultSelections, everListed>>

\* A show/hide link that also clears the selection.
ShowAllToggleDeselects ==
    /\ phase = "mounted"
    /\ Len(runs) > 1
    /\ showAllRuns' = ~showAllRuns
    /\ SetActivePlots(<<>>, "none")
    /\ UNCHANGED <<phase, liveData, runs, runDataCache, liveInterval, pendingLive,
                   pendingRuns, defaultSelections, everListed>>

\* The user clicks the show/hide link, rendered when runs.length > 1.
ShowAllToggle ==
    /\ phase = "mounted"
    /\ Len(runs) > 1
    /\ showAllRuns' = ~showAllRuns
    /\ UNCHANGED <<phase, liveData, runs, activePlots, runDataCache, liveInterval,
                   refreshIntervals, pendingLive, pendingRuns, pendingRun,
                   defaultSelections, onDemand>>
    /\ UNCHANGED <<everListed, everSelected>>

\* A tick of a live refresh interval: fetchRunData for each id it closed over.
RefreshTick ==
    /\ \E i \in DOMAIN refreshIntervals :
            pendingRun' = [r \in RunIds |->
                pendingRun[r] + TickFetches(refreshIntervals[i], r)]
    /\ \A r \in RunIds : pendingRun'[r] <= MaxInFlight
    /\ UNCHANGED <<phase, liveData, runs, activePlots, runDataCache, showAllRuns,
                   liveInterval, refreshIntervals, pendingLive, pendingRuns,
                   defaultSelections, onDemand>>
    /\ UNCHANGED <<everListed, everSelected>>

\* The view is torn down: the cleanups of the mount and refresh effects.
Unmount ==
    /\ phase = "mounted"
    /\ phase' = "unmounted"
    /\ liveInterval' = MountCleanup(liveInterval)
    /\ refreshIntervals' = RefreshCleanup(refreshIntervals, activePlots)
    /\ UNCHANGED <<liveData, runs, activePlots, runDataCache, showAllRuns,
                   pendingLive, pendingRuns, pendingRun, defaultSelections,
                   onDemand>>
    /\ UNCHANGED <<everListed, everSelected>>

\* The next-state relation for the /runs bodies lists and the series bodies
\* jsons, recording the histories rec.
NextWith(lists, jsons, rec) ==
    \/ Mount
    \/ LiveTick
    \/ \E json \in jsons : FetchLiveResultsOk(json)
    \/ FetchLiveResultsFail
    \/ \E list \in lists : FetchRunsOk(list, rec)
    \/ FetchRunsFail
    \/ \E r \in RunIds, json \in jsons : FetchRunDataOk(r, json)
    \/ \E r \in RunIds : FetchRunDataFail(r)
    \/ \E r \in RunIds : CheckboxToggle(r, rec)
    \/ ShowAllToggle
    \/ RefreshTick
    \/ Unmount

Next == NextWith(RunLists, NarrowJson, "none")

Spec == Init /\ [][Next]_vars

\* The same behaviours, with the two counters recorded.
NextHist == NextWith(RunLists, NarrowJson, "counts")

SpecHist == Init /\ [][NextHist]_vars

\* The same behaviours, with the two sets recorded.
NextProv == NextWith(RunLists, NarrowJson, "sets")

SpecProv == Init /\ [][NextProv]_vars

\* The parsing model: one run, polled and refreshed, with bodies whose steps
\* hold every text of Texts.
OneRunList == {<<[run |-> "r1"]>>}

NextParse ==
    \/ Mount
    \/ LiveTick
    \/ \E json \in WideJson : FetchLiveResultsOk(json)
    \/ FetchLiveResultsFail
    \/ \E list \in OneRunList : FetchRunsOk(list, "none")
    \/ FetchRunsFail
    \/ \E json \in WideJson : FetchRunDataOk("r1", json)
    \/ FetchRunDataFail("r1")
    \/ RefreshTick

SpecParse == Init /\ [][NextParse]_vars

\* The scheduling model: the run list is the same two runs at every poll, and
\* the counters are recorded.
TwoRunList == {<<[run |-> "r1"], [run |-> "r2"]>>}

NextFair == NextWith(TwoRunList, NarrowJson, "counts")

\* A live interval keeps ticking, and a run whose fetches keep being issued
\* has one of them answered with a body.
Fairness ==
    /\ WF_vars(RefreshTick)
    /\ \A r \in RunIds : SF_vars(\E json \in NarrowJson : FetchRunDataOk(r, json))

SpecFair == Init /\ [][NextFair]_vars /\ Fairness

\* The table model: one run whose elapsed_min changes from poll to poll.
NextElapsed ==
    \/ Mount
    \/ LiveTick
    \/ FetchLiveResultsFail
    \/ \E list \in ElapsedRunLists : FetchRunsOk(list, "none")
    \/ FetchRunsFail
    \/ FetchRunDataFail("r1")

SpecElapsed == Init /\ [][NextElapsed]_vars

\* The colour model: every run of ColorRuns is listed, shown and cached, the
\* second one with or without a series in its entry, and the user changes the
\* checkboxes.
ColorCaches ==
    {[r \in ColorIds |-> IF r \in empty THEN ParseBody([steps |-> Absent, returns |-> Absent])
                         ELSE ParseBody([steps |-> Present(<<<<"7">>>>),
                                         returns |-> Present(<<<<"7">>>>)])] :
        empty \in {{}, {"r2"}}}

InitColor ==
    /\ phase = "mounted"
    /\ liveData = [steps |-> <<>>, returns |-> <<>>]
    /\ runs = ColorRuns
    /\ activePlots = <<>>
    /\ runDataCache \in ColorCaches
    /\ showAllRuns = TRUE
    /\ liveInterval = TRUE
    /\ refreshIntervals = <<>>
    /\ pendingLive = 0
    /\ pendingRuns = 0
    /\ pendingRun = [r \in RunIds |-> 0]
    /\ defaultSelections = 0
    /\ onDemand = [r \in RunIds |-> 0]
    /\ everListed = {}
    /\ everSelected = {}

NextColor == \E r \in ColorIds : CheckboxToggle(r, "none")

SpecColor == InitColor /\ [][NextColor]_vars

\* ------------------------------------------------------------------ claims

Selected(r) == r \in Range(activePlots)
Cached(r) == r \in DOMAIN runDataCache

\* C1: when a /runs poll completes with a non-empty list while the run list
\* and the selection are both empty, the selection becomes exactly the
\* identifier of the list's first entry.
C1_DefaultSelectsFirst ==
    [][(phase = "mounted" /\ runs = <<>> /\ activePlots = <<>> /\ runs' # <<>>)
        => activePlots' = <<runs'[1].run>>]_vars

\* The default selection has acted on a two-run list: its first run is the
\* selection, nothing is cached yet and the one fetch for that run is in flight.
C1_Witness ==
    /\ phase = "mounted"
    /\ runs = <<[run |-> "r2"], [run |-> "r1"]>>
    /\ activePlots = <<"r2">>
    /\ ~showAllRuns
    /\ runDataCache = EmptyCache
    /\ pendingRun = [r \in RunIds |-> IF r = "r2" THEN 1 ELSE 0]

\* C2: the default-selection step occurs at most once between mount and
\* teardown.
C2_DefaultSelectionAtMostOnce == defaultSelections <= 1

\* C3: the selection-change effect issues at most one fetch for a run that
\* has no cache entry, and none for a run that has one: over the view's
\* lifetime it issues at most one fetch for each run.
C3_NoDuplicateOnDemandFetch == \A r \in RunIds : onDemand[r] <= 1

\* C4: a run that is selected and stays selected in a mounted view eventually
\* has a cache entry.
C4_EventuallyCached ==
    \A r \in RunIds :
        (phase = "mounted" /\ Selected(r))
            ~> (Cached(r) \/ ~Selected(r) \/ phase = "unmounted")

\* The first on-demand fetch of a selected run has failed: it was issued, none
\* is in flight and there is no entry.
C4_Witness ==
    /\ phase = "mounted"
    /\ Selected("r1")
    /\ ~Cached("r1")
    /\ onDemand["r1"] = 1
    /\ pendingRun["r1"] = 0

\* C5: a fetch that fails leaves the state it would have updated as it was,
\* and the view as it was: mounted, with its timers.
C5_FailureRetainsState ==
    [][/\ (\E r \in RunIds : FetchRunDataFail(r)) => runDataCache' = runDataCache
       /\ FetchRunsFail => runs' = runs
       /\ FetchLiveResultsFail => liveData' = liveData
       /\ ((\E r \in RunIds : FetchRunDataFail(r)) \/ FetchRunsFail \/ FetchLiveResultsFail)
            => /\ phase' = phase
               /\ liveInterval' = liveInterval
               /\ refreshIntervals' = refreshIntervals
               /\ activePlots' = activePlots]_vars

\* A fetch for a run that has a non-empty entry is in flight, next to a poll
\* of each kind: each of the three may fail here.
C5_Witness ==
    /\ phase = "mounted"
    /\ Cached("r1")
    /\ Len(runDataCache["r1"].steps) > 0
    /\ pendingRun["r1"] > 0
    /\ pendingRuns > 0
    /\ pendingLive > 0
    /\ runs # <<>>
    /\ Len(liveData.steps) > 0

\* C6: there is at most one live refresh interval; in a mounted view there is
\* one exactly when the selection is non-empty, and it refreshes the current
\* selection.
C6_OneRefreshInterval ==
    /\ Len(refreshIntervals) <= 1
    /\ phase = "mounted" =>
        /\ (Len(refreshIntervals) = 1) <=> (Len(activePlots) > 0)
        /\ Len(refreshIntervals) = 1 => refreshIntervals[1] = activePlots

\* The selection has changed twice and one interval, over both runs, is live.
C6_Witness ==
    /\ phase = "mounted"
    /\ activePlots = <<"r2", "r1">>
    /\ refreshIntervals = <<activePlots>>

\* C7: once the view is torn down no timer is live, and no step issues a fetch.
C7_TeardownStopsFetches ==
    /\ [](phase = "unmounted" => (~liveInterval /\ refreshIntervals = <<>>))
    /\ [][phase = "unmounted" =>
            /\ pendingLive' <= pendingLive
            /\ pendingRuns' <= pendingRuns
            /\ \A r \in RunIds : pendingRun'[r] <= pendingRun[r]]_vars

\* Torn down with a selection, and with every fetch it issued answered.
C7_Witness ==
    /\ phase = "unmounted"
    /\ Len(activePlots) = 2
    /\ pendingLive = 0
    /\ pendingRuns = 0
    /\ \A r \in RunIds : pendingRun[r] = 0

\* C8: one toggle of r changes the membership of r and of no other
\* identifier, and two toggles of r restore the membership.
C8_ToggleInvolution ==
    \A r \in RunIds :
        LET once == ToggleUpdater(activePlots, r)
            twice == ToggleUpdater(once, r)
        IN  /\ Range(once) = IF Selected(r) THEN Range(activePlots) \ {r}
                             ELSE Range(activePlots) \cup {r}
            /\ Range(twice) = Range(activePlots)

\* Both rows are shown and both runs are selected, the list's first run
\* last: it has been toggled in after the other.
C8_Witness ==
    /\ phase = "mounted"
    /\ showAllRuns
    /\ runs = <<[run |-> "r1"], [run |-> "r2"]>>
    /\ activePlots = <<"r2", "r1">>
    /\ \A r \in RunIds : Cached(r)

HasNaN(series) == \E i \in DOMAIN series : series[i].nan

CleanSeries(e) ==
    /\ ~HasNaN(e.steps)
    /\ ~HasNaN(e.returns)
    /\ Len(e.steps) = Len(e.returns)

\* C9: the stored series, live and cached, hold no not-a-number value, and
\* their steps and returns have equal length.
C9_StoredSeriesClean ==
    /\ CleanSeries(liveData)
    /\ \A r \in DOMAIN runDataCache : CleanSeries(runDataCache[r])

\* The plotted series without their colours.
Plotted == 
    LET data == PlotData(runs, activePlots, runDataCache)
    IN  [i \in DOMAIN data |-> [x |-> data[i].x, y |-> data[i].y, name |-> data[i].name]]

\* One series for each selected run that satisfies Shown, in selection order.
SeriesOf(Shown(_)) ==
    LET kept == SelectSeq(activePlots, Shown)
    IN  [i \in DOMAIN kept |->
            [x |-> runDataCache[kept[i]].steps,
             y |-> runDataCache[kept[i]].returns,
             name |-> kept[i]]]

HasSeries(r) == Cached(r) /\ Len(runDataCache[r].steps) > 0
Listed(r) == \E i \in DOMAIN runs : runs[i].run = r
ListedWithSeries(r) == Listed(r) /\ HasSeries(r)

\* C10 as stated: the plotted series are those of the selected runs that have
\* an entry with a non-empty steps sequence, in selection order.
C10_PlotsCachedSelection == Plotted = SeriesOf(HasSeries)

\* C10, amended: the plotted series are those of the selected runs that are in
\* the current run list and have an entry with a non-empty steps sequence, in
\* selection order.
C10_PlotsListedCachedSelection == Plotted = SeriesOf(ListedWithSeries)

\* Two runs are selected and have series; one of them has left the run list.
C10_Witness ==
    /\ phase = "mounted"
    /\ activePlots = <<"r1", "r2">>
    /\ HasSeries("r1")
    /\ HasSeries("r2")
    /\ ~Listed("r1")
    /\ Listed("r2")
    /\ Len(Plotted) = 1

\* C11: no eviction.  A run identifier that has a cache entry has one after
\* every step: no operation removes a key of runDataCache.
C11_NoEviction ==
    [][DOMAIN runDataCache \subseteq DOMAIN runDataCache']_vars

\* A cached run that is neither selected nor listed any more, while a second
\* run has been cached after it.
C11_Witness ==
    /\ phase = "mounted"
    /\ DOMAIN runDataCache = {"r1", "r2"}
    /\ activePlots = <<>>
    /\ runs = <<>>
    /\ showAllRuns

\* The identifiers that are in exactly one of the two lists.
Flipped(before, after) ==
    (Range(before) \ Range(after)) \cup (Range(after) \ Range(before))

\* C12: table row gating.  The visible rows are the first entry of runs (none
\* for an empty list) while showAllRuns is false and the whole list, in order,
\* while it is true, and a checkbox change reaches only a visible row.  With
\* the list [r2, r1] arriving on an empty selection the selection becomes [r2]
\* and the table shows r2 alone; toggling show-all then shows both rows.
C12_TableRowGating ==
    /\ [](TableRows(runs, showAllRuns) =
            IF showAllRuns \/ runs = <<>> THEN runs ELSE <<runs[1]>>)
    /\ [][(runs' = runs /\ activePlots' # activePlots /\ ~showAllRuns)
            => Flipped(activePlots, activePlots') = {runs[1].run}]_vars
    /\ [][(/\ runs = <<>>
           /\ activePlots = <<>>
           /\ ~showAllRuns
           /\ runs' = <<[run |-> "r2"], [run |-> "r1"]>>)
            => /\ activePlots' = <<"r2">>
               /\ TableRows(runs', showAllRuns') = <<[run |-> "r2"]>>]_vars
    /\ [][(/\ runs = <<[run |-> "r2"], [run |-> "r1"]>>
           /\ ~showAllRuns
           /\ showAllRuns')
            => TableRows(runs', showAllRuns') = <<[run |-> "r2"], [run |-> "r1"]>>]_vars

\* The list [r2, r1] with r2 selected by default and both rows shown.
C12_Witness ==
    /\ phase = "mounted"
    /\ runs = <<[run |-> "r2"], [run |-> "r1"]>>
    /\ activePlots = <<"r2">>
    /\ showAllRuns
    /\ Len(TableRows(runs, showAllRuns)) = 2
    /\ DOMAIN runDataCache = {}

\* The text of two decimal digits of a number below 100.
TwoDigits(n) == <<Digits[(n \div 10) + 1], Digits[(n % 10) + 1]>>

\* C13: elapsed-time rendering.  The time cell of every visible row whose
\* elapsed_min is present with the value m, 0 included, is the two digits of
\* m div 60, a colon and the two digits of m mod 60, and the cell is the
\* placeholder "-" exactly when elapsed_min is absent.
C13_ElapsedCell ==
    \A i \in DOMAIN TableRows(runs, showAllRuns) :
        LET run == TableRows(runs, showAllRuns)[i]
            m == run.elapsed_min.val
        IN  ElapsedCell(run) =
                IF run.elapsed_min.has
                THEN TwoDigits(m \div 60) \o <<":">> \o TwoDigits(m % 60)
                ELSE <<"-">>

\* C14: independent cache overwrite under interleaving.  The completion of a
\* fetch for the run r with a body stores that body's parsed series as r's
\* entry, whatever the entry was, and leaves every other entry as it was:
\* with fetches for several runs in flight, in any completion order, no
\* completed update is lost.
C14_IndependentOverwrite ==
    [][\A r \in RunIds, json \in NarrowJson :
        (phase = "mounted" /\ FetchRunDataOk(r, json))
            => /\ DOMAIN runDataCache' = DOMAIN runDataCache \cup {r}
               /\ runDataCache'[r] = ParseBody(json)
               /\ \A s \in DOMAIN runDataCache \ {r} :
                    runDataCache'[s] = runDataCache[s]]_vars

\* Both runs hold the entry of their own response, one with a series and one
\* without, while a further fetch for each is in flight.
C14_Witness ==
    /\ phase = "mounted"
    /\ DOMAIN runDataCache = {"r1", "r2"}
    /\ Len(runDataCache["r1"].steps) = 1
    /\ Len(runDataCache["r2"].steps) = 0
    /\ pendingRun["r1"] > 0
    /\ pendingRun["r2"] > 0

\* C15: refresh only while selected.  A step that issues a fetch for a run,
\* whether a tick of the refresh interval or the effect of a selection change,
\* issues it for a run of the selection at that moment, and a tick issues one
\* only for the runs its interval closed over: once a run is deselected no
\* fetch is issued for it until it is selected again.
C15_RefreshOnlySelected ==
    [][\A r \in RunIds :
        pendingRun'[r] > pendingRun[r]
            => /\ Selected(r)'
               /\ activePlots' = activePlots => Selected(r)]_vars

\* r1 was selected and cached and is deselected; the interval that is live
\* closed over r2 alone and its ticks have fetched r2, and nothing for r1.
C15_Witness ==
    /\ phase = "mounted"
    /\ activePlots = <<"r2">>
    /\ Cached("r1")
    /\ refreshIntervals = <<<<"r2">>>>
    /\ pendingRun["r1"] = 0
    /\ pendingRun["r2"] = MaxInFlight

\* C16: live/run-list polling schedule.  Nothing is polled before the mount;
\* the mount issues one /results and one /runs fetch and creates the live
\* interval; every later poll is a pair, one /results and one /runs fetch
\* issued by the same step; the interval is live for as long as the view is
\* mounted, whatever was selected, toggled or failed, and only the teardown
\* cancels it; and while it is live its tick can issue the next pair as soon
\* as the pair before has been answered, with or without failure.
C16_PollingSchedule ==
    /\ [](phase = "new" => ~liveInterval /\ pendingLive = 0 /\ pendingRuns = 0)
    /\ [][(phase = "new" /\ phase' = "mounted")
            => pendingLive' = 1 /\ pendingRuns' = 1 /\ liveInterval']_vars
    /\ [][(pendingLive' > pendingLive \/ pendingRuns' > pendingRuns)
            => /\ pendingLive' = pendingLive + 1
               /\ pendingRuns' = pendingRuns + 1]_vars
    /\ [](phase = "mounted" => liveInterval)
    /\ [][liveInterval' # liveInterval
            => \/ phase = "new" /\ phase' = "mounted"
               \/ phase = "mounted" /\ phase' = "unmounted"]_vars
    /\ []((/\ liveInterval
           /\ pendingLive < MaxPollInFlight
           /\ pendingRuns < MaxPollInFlight) => ENABLED LiveTick)

\* After two runs were listed and selected and the table was expanded, a tick
\* of the live interval has issued a further pair of polls.
C16_Witness ==
    /\ phase = "mounted"
    /\ liveInterval
    /\ Len(runs) = 2
    /\ Len(activePlots) = 2
    /\ showAllRuns
    /\ pendingLive = 1
    /\ pendingRuns = 1
    /\ DOMAIN runDataCache = {}

\* C17: selection frame.  A step changes activePlots only as the default
\* selection of a completed /runs poll (an empty selection becomes the first
\* listed run) or as a checkbox change of one visible row; the completion of a
\* /results or /results/{runId} fetch, with or without failure, a timer tick
\* and the show/hide toggle leave it unchanged; the show/hide toggle also
\* leaves the run list and the cache unchanged and issues no fetch.
C17_SelectionFrame ==
    /\ [][activePlots' # activePlots
            => \/ /\ pendingRuns' = pendingRuns - 1
                  /\ activePlots = <<>>
                  /\ runs' # <<>>
                  /\ activePlots' = <<runs'[1].run>>
               \/ /\ UNCHANGED <<runs, liveData, runDataCache, showAllRuns,
                                 pendingLive, pendingRuns>>
                  /\ \E i \in DOMAIN TableRows(runs, showAllRuns) :
                        Flipped(activePlots, activePlots') =
                            {TableRows(runs, showAllRuns)[i].run}]_vars
    /\ [][(\/ liveData' # liveData
           \/ pendingLive' # pendingLive
           \/ runDataCache' # runDataCache
           \/ \E r \in RunIds : pendingRun'[r] < pendingRun[r]
           \/ RefreshTick
           \/ showAllRuns' # showAllRuns)
            => activePlots' = activePlots]_vars
    /\ [][showAllRuns' # showAllRuns
            => UNCHANGED <<runs, runDataCache, pendingLive, pendingRuns,
                           pendingRun, refreshIntervals, liveInterval>>]_vars

\* Both rows are shown and r1 alone is selected and cached, while a refresh
\* tick has a fetch for it in flight and a poll of each kind is in flight.
C17_Witness ==
    /\ phase = "mounted"
    /\ showAllRuns
    /\ Len(runs) = 2
    /\ activePlots = <<"r1">>
    /\ DOMAIN runDataCache = {"r1"}
    /\ pendingRun["r1"] = 1
    /\ pendingLive = 1
    /\ pendingRuns = 1

\* The data prop of Plot in the current state.
PlotProp == PlotData(runs, activePlots, runDataCache)

\* The 0-based position of the run named name in the selection active.
PositionOf(active, name) == (CHOOSE i \in DOMAIN active : active[i] = name) - 1

\* The colours of the series data, by run name.
ColorsOf(data) == {<<data[k].name, data[k].color>> : k \in DOMAIN data}

\* C18: colour by position.  The series of the run at the 0-based position i
\* of activePlots has the colour i mod 6 of the palette, where i counts every
\* selected run, plotted or omitted; two plotted runs fewer than 6 positions
\* apart have different colours; and when a run earlier in the order is
\* removed by its checkbox, every plotted run behind it is plotted in another
\* colour.
C18_ColorByPosition ==
    LET data == PlotProp
        colors == ColorsOf(data)
    IN  /\ \A k \in DOMAIN data :
                data[k].color = Palette[(PositionOf(activePlots, data[k].name) % 6) + 1]
        /\ \A a, b \in colors :
                LET i == PositionOf(activePlots, a[1])
                    j == PositionOf(activePlots, b[1])
                IN  (i < j /\ j - i < 6) => a[2] # b[2]
        /\ \A e \in Range(activePlots) :
                LET after == ColorsOf(PlotData(runs, ToggleUpdater(activePlots, e),
                                               runDataCache))
                IN  \A a \in colors :
                        PositionOf(activePlots, e) < PositionOf(activePlots, a[1])
                            => /\ \E c \in after : c[1] = a[1]
                               /\ a \notin after

\* Seven runs are selected and one of them is omitted; the first and the
\* seventh are plotted, six positions apart, in the palette's first colour.
C18_Witness ==
    /\ Len(activePlots) = 7
    /\ Len(PlotProp) = 6
    /\ PlotProp[1].name = activePlots[1]
    /\ PlotProp[6].name = activePlots[7]
    /\ PlotProp[1].color = Palette[1]
    /\ PlotProp[6].color = Palette[1]

\* C19: activePlots as a set.  With run identifiers unique within every run
\* list, no run identifier is at two positions of activePlots.
C19_NoDuplicateSelection ==
    \A i, j \in DOMAIN activePlots : activePlots[i] = activePlots[j] => i = j

\* Both runs are selected, in the order opposite to the list's, after at least
\* two checkbox changes.
C19_Witness ==
    /\ phase = "mounted"
    /\ runs = <<[run |-> "r1"], [run |-> "r2"]>>
    /\ activePlots = <<"r2", "r1">>
    /\ DOMAIN runDataCache = {"r1"}

\* C20: provenance.  Every run identifier of activePlots was in a run list
\* stored from a /runs response in this state or an earlier one, and every key
\* of runDataCache was in activePlots in this state or an earlier one.
C20_Provenance ==
    /\ Range(activePlots) \subseteq everListed
    /\ DOMAIN runDataCache \subseteq everSelected

\* The selected run is in no row of the current list, and the cached run is
\* neither selected nor listed: both were, in earlier states.
C20_Witness ==
    /\ phase = "mounted"
    /\ runs = <<>>
    /\ activePlots = <<"r2">>
    /\ DOMAIN runDataCache = {"r1"}
    /\ everListed = {"r1", "r2"}
    /\ everSelected = {"r1", "r2"}

====
